---- MODULE Spec2Model ----
(***************************************************************************)
(* Route planner of the TUS Santander client (src/src/api.js):             *)
(* planificarRuta and the estimates cache getTodasEstimacionesCached, the   *)
(* paging of fetchAllPages, and the two tools that call the planner        *)
(* (src/src/index.js): planificar_ruta and ruta_desde_nombres.             *)
(*                                                                         *)
(* Optional JavaScript values (a field that may be undefined, null) are    *)
(* tuples: <<>> is undefined/null, <<v>> is the value v.  Positions are    *)
(* integers in metres, distances in hundredths of a kilometre.             *)
(***************************************************************************)
EXTENDS Integers, Sequences, FiniteSets, TLC

\* ------------------------------------------------------------------------
\* Bounds of the model
\* ------------------------------------------------------------------------
MaxFeed == 7        \* most records of the sequence feed
MaxCalls == 2       \* cache calls of one run
MaxClock == 60000   \* last instant (ms) at which a cache call may start
PageItems == 2      \* records in one page of an answer of the server
MaxFeedPaged == 3   \* most records of the sequence feed when pages may be lost

\* ------------------------------------------------------------------------
\* JavaScript helpers
\* ------------------------------------------------------------------------
Undefined == <<>>
Some(v) == <<v>>

\* String.prototype.toUpperCase on the labels of the model
toUpperCase(s) ==
  CASE s = "n3" -> "N3"
    [] OTHER -> s

\* x?.toUpperCase()
optUpper(o) == IF o = Undefined THEN Undefined ELSE Some(toUpperCase(o[1]))

\* Number.prototype.toString / String.prototype.toString on stop numbers
StopIdStrings == <<"1", "2", "3", "4", "5">>
toString(n) == StopIdStrings[n]

\* parseFloat(raw ?? 0): a missing field is 0, a malformed one is NaN
NaN == [nan |-> TRUE, v |-> 0]
Num(n) == [nan |-> FALSE, v |-> n]
parseFloat(raw) ==
  CASE raw.k = "missing" -> Num(0)
    [] raw.k = "num" -> Num(raw.v)
    [] OTHER -> NaN

\* a <= b on numbers: false as soon as one side is NaN
Leq(a, b) == ~a.nan /\ ~b.nan /\ a.v <= b.v

\* variant of toFixed2: the subtraction the other way round
toFixed2Invertido(a, b) ==
  IF a.nan \/ b.nan THEN NaN ELSE Num((a.v - b.v + 5) \div 10)

\* parseFloat((b - a).toFixed(2)) for b >= a, metres to hundredths of a km
toFixed2(a, b) ==
  IF a.nan \/ b.nan THEN NaN ELSE Num((b.v - a.v + 5) \div 10)

\* Math.round(t / 60) for t >= 0
roundMinutes(t) == (t + 30) \div 60

MapSeq(f(_), s) == [i \in 1..Len(s) |-> f(s[i])]

RECURSIVE Flatten(_)
Flatten(ss) == IF ss = <<>> THEN <<>> ELSE Head(ss) \o Flatten(Tail(ss))

\* Array.prototype.findIndex, 1-based, 0 when nothing matches
FindIndex(a, Test(_)) ==
  IF \E i \in 1..Len(a) : Test(a[i])
  THEN CHOOSE i \in 1..Len(a) : Test(a[i]) /\ \A j \in 1..(i - 1) : ~Test(a[j])
  ELSE 0

\* [...new Set(a)]: the distinct elements in order of first insertion
Unique(a) ==
  LET first(i) == \A j \in 1..(i - 1) : a[j] # a[i]
      idx == SelectSeq([i \in 1..Len(a) |-> i], first)
  IN [k \in 1..Len(idx) |-> a[idx[k]]]

\* the index pairs of a nested loop, outer index first
ProductIdx(n, m) ==
  [k \in 1..(n * m) |-> <<((k - 1) \div m) + 1, ((k - 1) % m) + 1>>]

\* ------------------------------------------------------------------------
\* planificarRuta: the pure part
\* ------------------------------------------------------------------------
\* label of a raw sequence record: s["dc:EtiquetaLinea"] ?? s["ayto:Linea"]
etiquetaDe(s) == IF s.etiqueta # Undefined THEN s.etiqueta ELSE Some(s.linea)

seqToEntry(s) ==
  [linea |-> etiquetaDe(s),
   sentido |-> s.sentido,
   puntoKm |-> parseFloat(s.puntoKM),
   nParada |-> Some(toString(s.nParada))]

\* parseInt(lo.sentido) === 1 ? "ida" : "vuelta"
sentidoLabel(sentido) == IF sentido = 1 THEN "ida" ELSE "vuelta"

\* [...new Set(entries.map(e => e.linea).filter(Boolean))]
lineasUnicas(entries) ==
  Unique(SelectSeq(MapSeq(LAMBDA e : e.linea, entries), LAMBDA l : l # Undefined))

mapEstimacion(r) ==
  [paradaId |-> r.paradaId,
   linea |-> r.etiqLinea,
   tiempoMinutos |-> IF r.tiempo1 >= 0 THEN Some(roundMinutes(r.tiempo1)) ELSE Undefined]

\* the set of upper-cased labels of the estimates snapshot
lineasActivas(todasEstimaciones) ==
  {toUpperCase(todasEstimaciones.resources[i].etiqLinea) :
     i \in 1..Len(todasEstimaciones.resources)}

\* variant of esActiva: the label is looked up as written, not upper-cased
esActivaExacta(activas, linea) == linea # Undefined /\ linea[1] \in activas

\* lineasActivas.has(linea?.toUpperCase())
esActiva(activas, linea) == linea # Undefined /\ toUpperCase(linea[1]) \in activas

\* the test of the direct matcher on one origin entry and one destination entry
coincideDirecta(lo, ld) ==
  lo.linea = ld.linea /\ lo.sentido = ld.sentido /\ Leq(lo.puntoKm, ld.puntoKm)

\* variant of proximoBus: the labels are compared as written
proximoBusExacto(lo, estimaciones, paradaOrigenId) ==
  LET estOrigen == SelectSeq(estimaciones,
                     LAMBDA e : toString(e.paradaId) = paradaOrigenId
                                /\ Some(e.linea) = lo.linea)
  IN IF Len(estOrigen) > 0
     THEN Some([tiempoMinutos |-> estOrigen[1].tiempoMinutos])
     ELSE Undefined

\* estOrigen and proximoBus of one direct candidate
proximoBus(lo, estimaciones, paradaOrigenId) ==
  LET estOrigen == SelectSeq(estimaciones,
                     LAMBDA e : toString(e.paradaId) = paradaOrigenId
                                /\ Some(toUpperCase(e.linea)) = optUpper(lo.linea))
  IN IF Len(estOrigen) > 0
     THEN Some([tiempoMinutos |-> estOrigen[1].tiempoMinutos])
     ELSE Undefined

rutasDirectas(lineasOrigen, lineasDestino, estimaciones, paradaOrigenId) ==
  LET idx == SelectSeq(ProductIdx(Len(lineasOrigen), Len(lineasDestino)),
                       LAMBDA p : coincideDirecta(lineasOrigen[p[1]], lineasDestino[p[2]]))
      ruta(lo, ld) ==
        [tipo |-> "directa",
         linea |-> lo.linea,
         sentido |-> sentidoLabel(lo.sentido),
         distanciaKm |-> toFixed2(lo.puntoKm, ld.puntoKm),
         proximoBus |-> proximoBus(lo, estimaciones, paradaOrigenId)]
  IN [k \in 1..Len(idx) |-> ruta(lineasOrigen[idx[k][1]], lineasDestino[idx[k][2]])]

\* variant of rutasDirectasUnicas: the active filter alone, duplicates kept
rutasDirectasActivas(a, activas) ==
  SelectSeq(a, LAMBDA v : esActiva(activas, v.linea))

\* variant of rutasDirectasUnicas: first of its (linea, sentido), active or not
rutasDirectasSinFiltro(a, activas) ==
  LET keep(i) ==
        FindIndex(a, LAMBDA t : t.linea = a[i].linea /\ t.sentido = a[i].sentido) = i
      idx == SelectSeq([i \in 1..Len(a) |-> i], keep)
  IN [k \in 1..Len(idx) |-> a[idx[k]]]

\* the filter of rutasDirectas: first of its (linea, sentido), and active
rutasDirectasUnicas(a, activas) ==
  LET keep(i) ==
        FindIndex(a, LAMBDA t : t.linea = a[i].linea /\ t.sentido = a[i].sentido) = i
        /\ esActiva(activas, a[i].linea)
      idx == SelectSeq([i \in 1..Len(a) |-> i], keep)
  IN [k \in 1..Len(idx) |-> a[idx[k]]]

\* lineasOrigen.some(lo => lo.linea === label of the raw record s)
sirveOrigen(lineasOrigen, s) ==
  \E i \in 1..Len(lineasOrigen) : lineasOrigen[i].linea = etiquetaDe(s)

\* the stops of the origin lines, in order of first insertion
paradasIntermedias(seqs, lineasOrigen) ==
  Unique(MapSeq(LAMBDA s : toString(s.nParada),
                SelectSeq(seqs, LAMBDA s : sirveOrigen(lineasOrigen, s))))

\* paradaALineas.get(pi) ?? []
paradaALineas(seqsOrigen, seqsDestino, pi) ==
  MapSeq(seqToEntry, SelectSeq(seqsOrigen \o seqsDestino, LAMBDA s : toString(s.nParada) = pi))

\* variant of coincideTramo2: the positions are not compared
coincideTramo2SinOrden(li, ld) ==
  li.linea = ld.linea /\ li.sentido = ld.sentido

\* the test of the transfer matcher on one entry at pi and one destination entry
coincideTramo2(li, ld) ==
  li.linea = ld.linea /\ li.sentido = ld.sentido /\ Leq(li.puntoKm, ld.puntoKm)

\* variant of esIntermedia: the destination is not excluded
esIntermediaSalvoOrigen(pi, paradaOrigenId, paradaDestinoId) ==
  pi # paradaOrigenId

\* pi is kept unless pi === paradaOrigenId.toString() || pi === paradaDestinoId.toString()
esIntermedia(pi, paradaOrigenId, paradaDestinoId) ==
  pi # paradaOrigenId /\ pi # paradaDestinoId

rutasTransbordo(seqs, seqsDestino, lineasOrigen, lineasDestino, paradaOrigenId, paradaDestinoId) ==
  LET paradas == SelectSeq(paradasIntermedias(seqs, lineasOrigen),
                           LAMBDA pi : esIntermedia(pi, paradaOrigenId, paradaDestinoId))
      dePar(pi) ==
        LET lineasIntermedias == paradaALineas(seqs, seqsDestino, pi)
            idx == SelectSeq(ProductIdx(Len(lineasIntermedias), Len(lineasDestino)),
                     LAMBDA p : coincideTramo2(lineasIntermedias[p[1]], lineasDestino[p[2]]))
            found == FindIndex(seqs, LAMBDA s : toString(s.nParada) = pi
                                                /\ sirveOrigen(lineasOrigen, s))
            emit(p) ==
              [tipo |-> "transbordo",
               tramo1 |-> [linea |-> etiquetaDe(seqs[found]),
                           paradaTransbordo |-> pi],
               tramo2 |-> [linea |-> lineasIntermedias[p[1]].linea,
                           paradaTransbordo |-> pi]]
        IN IF found = 0 THEN <<>> ELSE MapSeq(emit, idx)
  IN Flatten(MapSeq(dePar, paradas))

\* variant of rutasTransbordoActivas: one active leg is enough
rutasTransbordoUnTramoActivo(rutas, activas) ==
  SelectSeq(rutas, LAMBDA r : esActiva(activas, r.tramo1.linea)
                              \/ esActiva(activas, r.tramo2.linea))

rutasTransbordoActivas(rutas, activas) ==
  SelectSeq(rutas, LAMBDA r : esActiva(activas, r.tramo1.linea)
                              /\ esActiva(activas, r.tramo2.linea))

\* slice(0, 5): máximo 5 sugerencias
MaxSugerencias == 5
slice5(a) == SubSeq(a, 1, IF Len(a) < MaxSugerencias THEN Len(a) ELSE MaxSugerencias)

\* variant of rutasConTransbordo: the cap first, then the filter
rutasConTransbordoCapPrimero(rutas, activas) == rutasTransbordoActivas(slice5(rutas), activas)

\* the transfer list of the plan: the active candidates, then the cap
rutasConTransbordo(rutas, activas) == slice5(rutasTransbordoActivas(rutas, activas))

\* variant of siNoHayDirectas: the transfer search always runs
siempreTransbordos(directasUnicas, candidatos) == candidatos

\* if (rutasDirectasUnicas.length === 0) { the transfer search }
siNoHayDirectas(directasUnicas, candidatos) ==
  IF Len(directasUnicas) = 0 THEN candidatos ELSE <<>>

\* ------------------------------------------------------------------------
\* The open-data server: what each query of the client returns
\* ------------------------------------------------------------------------
Rec(l, s, km, n) == [etiqueta |-> Some(l), linea |-> l, sentido |-> s, puntoKM |-> km, nParada |-> n]
Km(n) == [k |-> "num", v |-> n]
KmMissing == [k |-> "missing", v |-> 0]
KmBad == [k |-> "bad", v |-> 0]

\* the records the sequence feed may hold, in the order the server delivers them
FeedPool ==
  << Rec("n3", 1, Km(1204), 1), Rec("n3", 2, Km(0), 1), Rec("n3", 1, Km(5000), 1),
     Rec("n3", 1, Km(1500), 2), Rec("n3", 1, Km(4700), 2),
     Rec("n3", 1, Km(0), 3), Rec("n3", 1, Km(1000), 4),
     Rec("12", 1, Km(0), 1), Rec("12", 1, Km(800), 3), Rec("12", 1, Km(3000), 2),
     Rec("12", 2, KmMissing, 1), Rec("12", 2, KmBad, 2) >>

Est(l, p, t) == [etiqLinea |-> l, paradaId |-> p, tiempo1 |-> t]

\* the records the estimates feed may hold
EstPool == << Est("N3", 1, 95), Est("n3", 1, 400), Est("12", 3, -1) >>

\* the sub-sequence of pool that keeps the positions in S
SubPool(pool, S) == SelectSeq(pool, LAMBDA r : \E i \in S : pool[i] = r)

Reverse(s) == [i \in 1..Len(s) |-> s[Len(s) + 1 - i]]

\* the feeds of the model: at most MaxFeed records of the pool, delivered in
\* the order of the pool or in the opposite order
Feeds ==
  LET up == {SubPool(FeedPool, S) :
               S \in {T \in SUBSET (1..Len(FeedPool)) : Cardinality(T) <= MaxFeed}}
  IN up \cup {Reverse(f) : f \in up}
EstFeeds == {SubPool(EstPool, S) : S \in SUBSET (1..Len(EstPool))}

\* fetchAllPages(secuencia, NParada:id): the records of one stop
secuenciaPorParada(f, id) == SelectSeq(f, LAMBDA s : toString(s.nParada) = id)

\* fetchAllPages(secuencia, EtiquetaLinea:l1 OR ...), or no fetch for no label
secuenciaPorLineas(f, labels) ==
  SelectSeq(f, LAMBDA s : \E i \in 1..Len(labels) : s.etiqueta = labels[i])

\* getEstimacionesByParada(id)
getEstimacionesByParada(e, id) ==
  MapSeq(mapEstimacion, SelectSeq(e, LAMBDA r : toString(r.paradaId) = id))

\* the answer of the server is cut in pages of PageItems records
Pages(rs) == (Len(rs) + PageItems - 1) \div PageItems
Page(rs, p) ==
  SubSeq(rs, (p - 1) * PageItems + 1, IF p * PageItems < Len(rs) THEN p * PageItems ELSE Len(rs))

\* the later pages of an answer, any of which the server may answer with an
\* error status and a JSON body without resources
LaterPages(rs) == 2..Pages(rs)

\* fetchAllPages once every request is answered: the first page, then the
\* resources of each later page, pd.resources ?? [] for a page in lost
fetchAllPages(rs, lost) ==
  Flatten([p \in 1..Pages(rs) |-> IF p \in lost THEN <<>> ELSE Page(rs, p)])

\* the fetches of one planning call
Fetches == {"origen", "destino", "lineasOrigen", "lineasDestino", "estimaciones", "todas"}
SinPerdidas == [n \in Fetches |-> {}]

\* ------------------------------------------------------------------------
\* State
\* ------------------------------------------------------------------------
VARIABLES
  feed,      \* the sequence feed of the server
  live,      \* the estimates feed of the server
  origen,    \* paradaOrigenId of the planning call
  destino,   \* paradaDestinoId of the planning call
  clock,     \* Date.now()
  cache,     \* _cache: [data, ts]
  calls,     \* the calls of getTodasEstimacionesCached
  pc,        \* where the planning call stands
  sibs,      \* the three other fetches of the second Promise.all
  plan,      \* the value planificarRuta returned
  parcial,   \* per fetch of the planning call, the later pages it lost
  req        \* the tool request being served

vars == <<feed, live, origen, destino, clock, cache, calls, pc, sibs, plan, parcial, req>>

CallIds == 1..MaxCalls
CACHE_TTL_MS == 30000
EmptyCache == [data |-> Undefined, ts |-> 0]
NoReq == [tool |-> "none", a |-> "", b |-> "", st |-> "none"]
IdleCall == [st |-> "idle", now |-> 0, fetched |-> FALSE, result |-> Undefined, saw |-> 0]

\* the object one fetchAllPages(estimaciones) call builds
Snapshot(id, resources) == [id |-> id, total |-> Len(resources), resources |-> resources]

\* _cache.data && now - _cache.ts < CACHE_TTL_MS
CacheFresh(c, now) == c.data # Undefined /\ now - c.ts < CACHE_TTL_MS

\* the call whose fetch filled the cache, 0 when the cache is empty or was
\* filled before the run
writer == IF cache.data = Undefined THEN 0 ELSE cache.data[1].id

\* getTodasEstimacionesCached up to its return or its await
CacheCallStart(c) ==
  /\ calls[c].st = "idle"
  /\ calls' = [calls EXCEPT ![c] =
       IF CacheFresh(cache, clock)
       THEN [st |-> "returned", now |-> clock, fetched |-> FALSE,
             result |-> cache.data, saw |-> writer]
       ELSE [st |-> "fetching", now |-> clock, fetched |-> TRUE,
             result |-> Undefined, saw |-> writer]]
  /\ UNCHANGED cache

\* variant of CacheStore: the snapshot is stored, the timestamp is not
CacheStoreSinTs(c, result) == [data |-> Some(result), ts |-> cache.ts]

\* variant of CacheStore: the timestamp is the time of the write
CacheStoreAlResolver(c, result) == [data |-> Some(result), ts |-> clock]

\* the write of the cache once the fetch has resolved
CacheStore(c, result) == [data |-> Some(result), ts |-> calls[c].now]

\* the fetch of the full collection resolves: store and return
CacheFetchResolve(c) ==
  /\ calls[c].st = "fetching"
  /\ LET result == Snapshot(c, live)
     IN /\ cache' = CacheStore(c, result)
        /\ calls' = [calls EXCEPT ![c].st = "returned", ![c].result = Some(result)]

\* the fetch of the full collection resolves although the later pages in lost
\* were answered with an error status: what was delivered is stored and returned
CacheFetchPartial(c, lost) ==
  /\ calls[c].st = "fetching"
  /\ LET result == [id |-> c, total |-> Len(live), resources |-> fetchAllPages(live, lost)]
     IN /\ cache' = CacheStore(c, result)
        /\ calls' = [calls EXCEPT ![c].st = "returned", ![c].result = Some(result)]

\* variant of CacheFetchFail: the timestamp is written although the fetch failed
CacheFetchFailConTs(c) ==
  /\ calls[c].st = "fetching"
  /\ calls' = [calls EXCEPT ![c].st = "threw"]
  /\ cache' = [cache EXCEPT !.ts = calls[c].now]

\* variant of CacheFetchFail: the failed call leaves an empty snapshot behind
CacheFetchFailVacia(c) ==
  /\ calls[c].st = "fetching"
  /\ calls' = [calls EXCEPT ![c].st = "threw"]
  /\ cache' = CacheStore(c, Snapshot(c, <<>>))

\* the fetch of the full collection fails: the call throws
CacheFetchFail(c) ==
  /\ calls[c].st = "fetching"
  /\ calls' = [calls EXCEPT ![c].st = "threw"]
  /\ UNCHANGED cache

\* what the server answers to the fetches of the second group, which are built
\* from the entries the fetches by stop delivered
respLineas(f, id, lostStop) ==
  secuenciaPorLineas(f,
    lineasUnicas(MapSeq(seqToEntry, fetchAllPages(secuenciaPorParada(f, id), lostStop))))
respEstimaciones(e, id) == SelectSeq(e, LAMBDA r : toString(r.paradaId) = id)

\* the value planificarRuta returns from what its fetches delivered: the
\* sequence feed f, the estimates feed e, the snapshot todasEstimaciones, and
\* per fetch the later pages that were lost
planificarRuta(f, e, todasEstimaciones, paradaOrigenId, paradaDestinoId, now, lost) ==
  LET lineasOrigen == MapSeq(seqToEntry,
                        fetchAllPages(secuenciaPorParada(f, paradaOrigenId), lost["origen"]))
      lineasDestino == MapSeq(seqToEntry,
                         fetchAllPages(secuenciaPorParada(f, paradaDestinoId), lost["destino"]))
      seqs == fetchAllPages(respLineas(f, paradaOrigenId, lost["origen"]), lost["lineasOrigen"])
      seqsDestino == fetchAllPages(respLineas(f, paradaDestinoId, lost["destino"]),
                                   lost["lineasDestino"])
      estimaciones == MapSeq(mapEstimacion,
                        fetchAllPages(respEstimaciones(e, paradaOrigenId), lost["estimaciones"]))
      activas == lineasActivas(todasEstimaciones)
      directas == rutasDirectasUnicas(
                    rutasDirectas(lineasOrigen, lineasDestino, estimaciones, paradaOrigenId),
                    activas)
      transbordos == siNoHayDirectas(directas,
                       rutasTransbordo(seqs, seqsDestino, lineasOrigen, lineasDestino,
                                       paradaOrigenId, paradaDestinoId))
  IN [origen |-> paradaOrigenId,
      destino |-> paradaDestinoId,
      rutasDirectas |-> directas,
      rutasConTransbordo |-> rutasConTransbordo(transbordos, activas),
      tiempoConsulta |-> now]

\* ------------------------------------------------------------------------
\* One planning call
\* ------------------------------------------------------------------------
\* the cache an earlier call may have left: empty, or a snapshot taken when
\* only the last estimate of the pool was live
PlanClocks == {40000}
EarlierCaches ==
  {EmptyCache, [data |-> Some(Snapshot(0, SubPool(EstPool, {Len(EstPool)}))), ts |-> 20000]}

Init ==
  /\ feed \in Feeds
  /\ live \in EstFeeds
  /\ \E od \in {<<"1", "2">>, <<"2", "1">>} : origen = od[1] /\ destino = od[2]
  /\ clock \in PlanClocks
  /\ cache \in EarlierCaches
  /\ calls = [c \in CallIds |-> IdleCall]
  /\ pc = "idle"
  /\ sibs = "none"
  /\ plan = Undefined
  /\ parcial = SinPerdidas
  /\ req = NoReq

\* planificarRuta is called: the two fetches by stop are issued
PlanStart ==
  /\ pc = "idle"
  /\ pc' = "await1"
  /\ UNCHANGED <<req, parcial, feed, live, origen, destino, clock, cache, calls, sibs, plan>>

\* one of the two fetches by stop fails: the call throws
StopsFail ==
  /\ pc = "await1"
  /\ pc' = "failed"
  /\ UNCHANGED <<req, parcial, feed, live, origen, destino, clock, cache, calls, sibs, plan>>

\* both fetches by stop resolve: the four promises of the second group are
\* built, getTodasEstimacionesCached running up to its return or its await
StopsResolve ==
  /\ pc = "await1"
  /\ pc' = "await2"
  /\ sibs' = "pending"
  /\ CacheCallStart(1)
  /\ UNCHANGED <<req, parcial, feed, live, origen, destino, clock, plan>>

\* the two fetches by line and the fetch of the origin estimates resolve
SibsResolve ==
  /\ sibs = "pending"
  /\ sibs' = "ok"
  /\ UNCHANGED <<req, parcial, feed, live, origen, destino, clock, cache, calls, pc, plan>>

\* variant of SibsFail: the rejection is swallowed, the call stays suspended
SibsFailTragado ==
  /\ sibs = "pending"
  /\ sibs' = "failed"
  /\ UNCHANGED <<req, parcial, feed, live, origen, destino, clock, cache, calls, pc, plan>>

\* one of them fails: Promise.all rejects, the call throws
SibsFail ==
  /\ sibs = "pending"
  /\ sibs' = "failed"
  /\ pc' = IF pc = "await2" THEN "failed" ELSE pc
  /\ UNCHANGED <<req, parcial, feed, live, origen, destino, clock, cache, calls, plan>>

\* the fetch of the full estimates resolves, whatever became of the others
EstimResolve ==
  /\ CacheFetchResolve(1)
  /\ UNCHANGED <<req, parcial, feed, live, origen, destino, clock, pc, sibs, plan>>

\* the fetch of the full estimates fails: Promise.all rejects
EstimFail ==
  /\ CacheFetchFail(1)
  /\ pc' = IF pc = "await2" THEN "failed" ELSE pc
  /\ UNCHANGED <<req, parcial, feed, live, origen, destino, clock, sibs, plan>>

\* the four promises are fulfilled: the matchers run and the plan is returned
PlanFinish ==
  /\ pc = "await2"
  /\ sibs = "ok"
  /\ calls[1].st = "returned"
  /\ plan' = Some(planificarRuta(feed, live, calls[1].result[1], origen, destino, clock, parcial))
  /\ pc' = "done"
  /\ UNCHANGED <<req, parcial, feed, live, origen, destino, clock, cache, calls, sibs>>

Next ==
  \/ PlanStart
  \/ StopsFail
  \/ StopsResolve
  \/ SibsResolve
  \/ SibsFail
  \/ EstimResolve
  \/ EstimFail
  \/ PlanFinish

Spec == Init /\ [][Next]_vars

\* ------------------------------------------------------------------------
\* What the claims speak of
\* ------------------------------------------------------------------------
Returned == pc = "done"
Directas == plan[1].rutasDirectas
Transbordos == plan[1].rutasConTransbordo

\* the estimates snapshot the planning call used
Usada == calls[1].result[1]

\* a line label appears, whatever its case, in a record of the snapshot
EnSnapshot(l, snap) ==
  \E i \in 1..Len(snap.resources) :
    toUpperCase(snap.resources[i].etiqLinea) = toUpperCase(l)

\* the record has a position: a number, or none given (then 0)
ConPosicion(s) == s.puntoKM.k \in {"num", "missing"}
Posicion(s) == IF s.puntoKM.k = "num" THEN s.puntoKM.v ELSE 0

\* records i and j of the feed are on one line and direction, i at stop a,
\* j at stop b, i not after j
Alcanza(i, a, j, b) ==
  /\ toString(feed[i].nParada) = a
  /\ toString(feed[j].nParada) = b
  /\ etiquetaDe(feed[i]) = etiquetaDe(feed[j])
  /\ feed[i].sentido = feed[j].sentido
  /\ ConPosicion(feed[i]) /\ ConPosicion(feed[j])
  /\ Posicion(feed[i]) <= Posicion(feed[j])

FeedIdx == 1..Len(feed)

\* the pairs of feed records that make a direct route on an active line
ParesDirectosActivos ==
  {p \in FeedIdx \X FeedIdx :
     /\ Alcanza(p[1], origen, p[2], destino)
     /\ EnSnapshot(etiquetaDe(feed[p[1]])[1], Usada)}

\* the pairs of feed records that make a direct route, active or not
ParesDirectos == {p \in FeedIdx \X FeedIdx : Alcanza(p[1], origen, p[2], destino)}

\* C1: when a line serves origin and destination in one direction, origin not
\* after destination, and the line is in the snapshot used, the returned plan
\* has a direct candidate of that line and direction.
C1_DirectCandidateFound ==
  Returned =>
    \A p \in ParesDirectosActivos :
      \E k \in 1..Len(Directas) :
        /\ Directas[k].linea = etiquetaDe(feed[p[1]])
        /\ Directas[k].sentido = sentidoLabel(feed[p[1]].sentido)

\* a plan was returned for a feed with direct lines of two labels, one of them
\* written in another case than in the estimates
C1_Witness ==
  /\ Returned
  /\ \E p, q \in ParesDirectosActivos :
       /\ etiquetaDe(feed[p[1]]) # etiquetaDe(feed[q[1]])
       /\ \A i \in 1..Len(Usada.resources) :
            Usada.resources[i].etiqLinea # etiquetaDe(feed[p[1]])[1]

\* the first pair, origin record outer and destination record inner, that
\* makes a direct route of the line and direction of candidate r
PrimerPar(r) ==
  LET S == {p \in ParesDirectos :
              /\ etiquetaDe(feed[p[1]]) = r.linea
              /\ sentidoLabel(feed[p[1]].sentido) = r.sentido}
  IN CHOOSE p \in S : \A q \in S : p[1] < q[1] \/ (p[1] = q[1] /\ p[2] <= q[2])

\* C2: no two direct candidates of a returned plan have the same line and
\* direction, and each is the one built from the first matching pair in
\* origin-outer, destination-inner order.
C2_DirectDeduplicated ==
  Returned =>
    /\ \A k1, k2 \in 1..Len(Directas) :
         (Directas[k1].linea = Directas[k2].linea
          /\ Directas[k1].sentido = Directas[k2].sentido) => k1 = k2
    /\ \A k \in 1..Len(Directas) :
         LET p == PrimerPar(Directas[k])
         IN Directas[k].distanciaKm
              = toFixed2(Num(Posicion(feed[p[1]])), Num(Posicion(feed[p[2]])))

\* a plan was returned with a direct candidate that several pairs of different
\* distance could have produced
C2_Witness ==
  /\ Returned
  /\ \E k \in 1..Len(Directas) :
       \E p, q \in ParesDirectos :
         /\ etiquetaDe(feed[p[1]]) = Directas[k].linea
         /\ etiquetaDe(feed[q[1]]) = Directas[k].linea
         /\ feed[p[1]].sentido = feed[q[1]].sentido
         /\ sentidoLabel(feed[p[1]].sentido) = Directas[k].sentido
         /\ Posicion(feed[p[2]]) - Posicion(feed[p[1]])
              # Posicion(feed[q[2]]) - Posicion(feed[q[1]])

\* C3: every line of a returned candidate, direct or of either leg of a
\* transfer, appears whatever its case in the estimates snapshot the call used.
C3_OnlyActiveLines ==
  Returned =>
    /\ \A k \in 1..Len(Directas) :
         Directas[k].linea # Undefined /\ EnSnapshot(Directas[k].linea[1], Usada)
    /\ \A k \in 1..Len(Transbordos) :
         /\ Transbordos[k].tramo1.linea # Undefined
         /\ EnSnapshot(Transbordos[k].tramo1.linea[1], Usada)
         /\ Transbordos[k].tramo2.linea # Undefined
         /\ EnSnapshot(Transbordos[k].tramo2.linea[1], Usada)

\* a plan was returned on a cached snapshot, with no direct candidate although
\* a direct line exists, and with a transfer candidate
C3_Witness ==
  /\ Returned
  /\ ~calls[1].fetched
  /\ ParesDirectos # {}
  /\ Directas = <<>>
  /\ Transbordos # <<>>

\* the transfer candidates the search discovers on the feed, in discovery
\* order, whether or not the search runs
Descubiertos ==
  LET lineasOrigen == MapSeq(seqToEntry, secuenciaPorParada(feed, origen))
      lineasDestino == MapSeq(seqToEntry, secuenciaPorParada(feed, destino))
  IN rutasTransbordo(secuenciaPorLineas(feed, lineasUnicas(lineasOrigen)),
                     secuenciaPorLineas(feed, lineasUnicas(lineasDestino)),
                     lineasOrigen, lineasDestino, origen, destino)

\* both lines of a transfer candidate appear in the snapshot used
AmbasEnSnapshot(r) ==
  /\ r.tramo1.linea # Undefined /\ EnSnapshot(r.tramo1.linea[1], Usada)
  /\ r.tramo2.linea # Undefined /\ EnSnapshot(r.tramo2.linea[1], Usada)

\* C4: a returned plan with a direct candidate has no transfer candidate.
C4_TransferOnlyWithoutDirect ==
  Returned => (Directas # <<>> => Transbordos = <<>>)

\* a plan was returned with a direct candidate for a feed on which the
\* transfer search would have found an active candidate
C4_Witness ==
  /\ Returned
  /\ Directas # <<>>
  /\ \E k \in 1..Len(Descubiertos) : AmbasEnSnapshot(Descubiertos[k])

\* C5: the transfer list of a returned plan has at most 5 entries and is the
\* first min(5, n) of the n discovered candidates whose two lines are in the
\* snapshot used, in discovery order.
C5_TransferCapAfterFilter ==
  Returned =>
    /\ Len(Transbordos) <= MaxSugerencias
    /\ Directas = <<>> =>
         LET pasan == SelectSeq(Descubiertos, AmbasEnSnapshot)
             n == Len(pasan)
         IN Transbordos = SubSeq(pasan, 1, IF n < MaxSugerencias THEN n ELSE MaxSugerencias)

\* a plan was returned where more than 5 candidates pass the filter and one
\* of the first 5 discovered does not
C5_Witness ==
  /\ Returned
  /\ Directas = <<>>
  /\ Len(SelectSeq(Descubiertos, AmbasEnSnapshot)) > MaxSugerencias
  /\ \E k \in 1..MaxSugerencias : ~AmbasEnSnapshot(Descubiertos[k])
  /\ Len(Transbordos) = MaxSugerencias

\* C6: in every transfer candidate of a returned plan, the leg-1 line has a
\* record at the origin and a record at the transfer stop, in one direction,
\* the origin not after the transfer stop.
C6_Leg1Reachable ==
  Returned =>
    \A k \in 1..Len(Transbordos) :
      \E i, j \in FeedIdx :
        /\ Alcanza(i, origen, j, Transbordos[k].tramo1.paradaTransbordo)
        /\ etiquetaDe(feed[i]) = Transbordos[k].tramo1.linea

\* C7: in every transfer candidate of a returned plan, the leg-2 line has a
\* record at the transfer stop and a record at the destination, in one
\* direction, the transfer stop not after the destination.
C7_Leg2Reachable ==
  Returned =>
    \A k \in 1..Len(Transbordos) :
      \E i, j \in FeedIdx :
        /\ Alcanza(i, Transbordos[k].tramo2.paradaTransbordo, j, destino)
        /\ etiquetaDe(feed[i]) = Transbordos[k].tramo2.linea

\* a plan was returned with a transfer candidate, for a feed that also has a
\* record at an intermediate stop lying after the destination on its line
C7_Witness ==
  /\ Returned
  /\ Transbordos # <<>>
  /\ \E i, j \in FeedIdx :
       /\ toString(feed[i].nParada) \notin {origen, destino}
       /\ Alcanza(j, destino, i, toString(feed[i].nParada))
       /\ Posicion(feed[j]) < Posicion(feed[i])

\* C8: the two legs of every transfer candidate of a returned plan are on
\* different lines.
C8_TwoLines ==
  Returned =>
    \A k \in 1..Len(Transbordos) :
      Transbordos[k].tramo1.linea # Transbordos[k].tramo2.linea

\* C9: in every transfer candidate of a returned plan both legs name the same
\* transfer stop, which is neither the origin nor the destination.
C9_TransferStopIntermediate ==
  Returned =>
    \A k \in 1..Len(Transbordos) :
      /\ Transbordos[k].tramo1.paradaTransbordo = Transbordos[k].tramo2.paradaTransbordo
      /\ Transbordos[k].tramo1.paradaTransbordo # origen
      /\ Transbordos[k].tramo1.paradaTransbordo # destino

\* a plan was returned with a transfer candidate, for a feed where a line of
\* the origin also stops at the destination
C9_Witness ==
  /\ Returned
  /\ Transbordos # <<>>
  /\ \E i, j \in FeedIdx :
       /\ toString(feed[i].nParada) = origen
       /\ toString(feed[j].nParada) = destino
       /\ etiquetaDe(feed[i]) = etiquetaDe(feed[j])

\* ------------------------------------------------------------------------
\* The estimates cache under overlapping calls
\* ------------------------------------------------------------------------
TickSteps == {10000, 15000}

InitCache ==
  /\ feed = <<>>
  /\ live = EstPool
  /\ origen = "1"
  /\ destino = "2"
  /\ clock = 0
  /\ cache = EmptyCache
  /\ calls = [c \in CallIds |-> IdleCall]
  /\ pc = "idle"
  /\ sibs = "none"
  /\ plan = Undefined
  /\ parcial = SinPerdidas
  /\ req = NoReq

\* time passes
Tick ==
  /\ \E d \in TickSteps : clock + d <= MaxClock /\ clock' = clock + d
  /\ UNCHANGED <<req, parcial, feed, live, origen, destino, cache, calls, pc, sibs, plan>>

\* the server drops the oldest estimate
ServerUpdate ==
  /\ live # <<>>
  /\ live' = Tail(live)
  /\ UNCHANGED <<req, parcial, feed, origen, destino, clock, cache, calls, pc, sibs, plan>>

\* some caller calls getTodasEstimacionesCached; the calls are numbered in the
\* order they start
Call ==
  /\ \E c \in CallIds :
       /\ \A b \in 1..(c - 1) : calls[b].st # "idle"
       /\ CacheCallStart(c)
  /\ UNCHANGED <<req, parcial, feed, live, origen, destino, clock, pc, sibs, plan>>

\* the fetch of a call resolves
Resolve ==
  /\ \E c \in CallIds : CacheFetchResolve(c)
  /\ UNCHANGED <<req, parcial, feed, live, origen, destino, clock, pc, sibs, plan>>

\* the fetch of a call fails
Fail ==
  /\ \E c \in CallIds : CacheFetchFail(c)
  /\ UNCHANGED <<req, parcial, feed, live, origen, destino, clock, pc, sibs, plan>>

NextCache ==
  \/ Tick
  \/ ServerUpdate
  \/ Call
  \/ Resolve
  \/ Fail

SpecCache == InitCache /\ [][NextCache]_vars

\* C10, as claimed: of two calls started less than 30 s apart, the second
\* issues no fetch and returns the snapshot the first returned, whether or not
\* the first had completed when the second started.
C10_CallsWithinTtlShare ==
  \A i, j \in CallIds :
    (i < j /\ calls[j].st # "idle" /\ calls[j].now - calls[i].now < CACHE_TTL_MS) =>
      /\ ~calls[j].fetched
      /\ (calls[i].st = "returned" /\ calls[j].st = "returned") =>
           calls[j].result = calls[i].result

\* C10, amended: a call that starts while the cache holds the snapshot an
\* earlier call fetched, less than 30 s after that earlier call started,
\* issues no fetch and returns that same snapshot.
C10_FreshSnapshotShared ==
  \A j \in CallIds :
    (/\ calls[j].st # "idle"
     /\ calls[j].saw # 0
     /\ calls[j].now - calls[calls[j].saw].now < CACHE_TTL_MS) =>
      /\ ~calls[j].fetched
      /\ calls[j].st = "returned"
      /\ calls[j].result = calls[calls[j].saw].result

\* a call started later than the call whose snapshot it found in the cache,
\* after the server had changed, and returned that snapshot without a fetch
C10_Witness ==
  \E j \in CallIds :
    /\ calls[j].st = "returned"
    /\ ~calls[j].fetched
    /\ calls[j].saw # 0
    /\ calls[j].now > calls[calls[j].saw].now
    /\ calls[j].result[1].resources # live

\* ------------------------------------------------------------------------
\* The tools that call planificarRuta (src/src/index.js)
\* ------------------------------------------------------------------------
Parada(n, nombre, direccion) == [numero |-> n, nombre |-> nombre, direccion |-> direccion]

\* the stops of the server, in the order it lists them
ParadasPool ==
  << Parada(1, "valdecilla", "avenida"), Parada(2, "sardinero", "avenida"),
     Parada(3, "valdecilla", "plaza") >>

\* the stop numbers and the search texts a request may carry
ToolIds == {"1", "2", "3"}
Textos == {"valdecilla", "sardinero", "avenida", "plaza", "puerto"}

\* buscarParadas(texto): the stops whose name or address holds the text
buscarParadas(texto) ==
  SelectSeq(ParadasPool, LAMBDA r : texto = r.nombre \/ texto = r.direccion)

InitTools ==
  /\ feed \in {f \in Feeds : Len(f) <= MaxFeedPaged}
  /\ live = EstPool
  /\ origen = ""
  /\ destino = ""
  /\ clock \in PlanClocks
  /\ cache = EmptyCache
  /\ calls = [c \in CallIds |-> IdleCall]
  /\ pc = "idle"
  /\ sibs = "none"
  /\ plan = Undefined
  /\ parcial = SinPerdidas
  /\ req = NoReq

\* the handler of planificar_ruta up to its await
planificar_ruta ==
  /\ req.st = "none"
  /\ \E parada_origen, parada_destino \in ToolIds :
       IF parada_origen = parada_destino
       THEN /\ req' = [tool |-> "planificar_ruta", a |-> parada_origen,
                       b |-> parada_destino, st |-> "err"]
            /\ UNCHANGED <<origen, destino, pc>>
       ELSE /\ req' = [tool |-> "planificar_ruta", a |-> parada_origen,
                       b |-> parada_destino, st |-> "planning"]
            /\ origen' = parada_origen
            /\ destino' = parada_destino
            /\ pc' = "await1"
  /\ UNCHANGED <<feed, live, clock, cache, calls, sibs, plan, parcial>>

\* the handler of ruta_desde_nombres up to its await: the two searches
ruta_desde_nombres ==
  /\ req.st = "none"
  /\ \E a, b \in Textos :
       req' = [tool |-> "ruta_desde_nombres", a |-> a, b |-> b, st |-> "searching"]
  /\ UNCHANGED <<feed, live, origen, destino, clock, cache, calls, pc, sibs, plan, parcial>>

\* one of the two searches fails: the handler throws
BuscarFail ==
  /\ req.st = "searching"
  /\ req' = [req EXCEPT !.st = "threw"]
  /\ UNCHANGED <<feed, live, origen, destino, clock, cache, calls, pc, sibs, plan, parcial>>

\* both searches resolve: an error for an empty list, else planificarRuta is
\* called with the numbers of the first stop of each list
BuscarResolve ==
  /\ req.st = "searching"
  /\ LET paradasOrigen == buscarParadas(req.a)
         paradasDestino == buscarParadas(req.b)
     IN IF Len(paradasOrigen) = 0 \/ Len(paradasDestino) = 0
        THEN /\ req' = [req EXCEPT !.st = "err"]
             /\ UNCHANGED <<origen, destino, pc>>
        ELSE /\ req' = [req EXCEPT !.st = "planning"]
             /\ origen' = toString(paradasOrigen[1].numero)
             /\ destino' = toString(paradasDestino[1].numero)
             /\ pc' = "await1"
  /\ UNCHANGED <<feed, live, clock, cache, calls, sibs, plan, parcial>>

\* planificarRuta has returned or thrown: the handler answers
Responde ==
  /\ req.st = "planning"
  /\ pc \in {"done", "failed"}
  /\ req' = [req EXCEPT !.st = IF pc = "done" THEN "ok" ELSE "threw"]
  /\ UNCHANGED <<feed, live, origen, destino, clock, cache, calls, pc, sibs, plan, parcial>>

NextTools ==
  \/ planificar_ruta
  \/ ruta_desde_nombres
  \/ BuscarFail
  \/ BuscarResolve
  \/ StopsFail
  \/ StopsResolve
  \/ SibsResolve
  \/ SibsFail
  \/ EstimResolve
  \/ EstimFail
  \/ PlanFinish
  \/ Responde

SpecTools == InitTools /\ [][NextTools]_vars

\* C11: planificarRuta is never running with an origin identifier equal to the
\* destination identifier: planificar_ruta and ruta_desde_nombres both reject
\* equal identifiers before they call it.
C11_CallersRejectEqualIds == pc # "idle" => origen # destino

\* ------------------------------------------------------------------------
\* One planning call when later pages of an answer may be lost
\* ------------------------------------------------------------------------
InitPaged == Init /\ Len(feed) <= MaxFeedPaged

\* both fetches by stop resolve, a later page of one of them answered with an
\* error status and a JSON body: its records are missing from what is delivered
StopsPartial ==
  /\ pc = "await1"
  /\ \E lo \in SUBSET LaterPages(secuenciaPorParada(feed, origen)),
        ld \in SUBSET LaterPages(secuenciaPorParada(feed, destino)) :
       /\ lo \cup ld # {}
       /\ parcial' = [parcial EXCEPT !["origen"] = lo, !["destino"] = ld]
  /\ pc' = "await2"
  /\ sibs' = "pending"
  /\ CacheCallStart(1)
  /\ UNCHANGED <<req, feed, live, origen, destino, clock, plan>>

\* the two fetches by line and the fetch of the origin estimates resolve, a
\* later page of one of them lost in the same way
SibsPartial ==
  /\ sibs = "pending"
  /\ \E l1 \in SUBSET LaterPages(respLineas(feed, origen, parcial["origen"])),
        l2 \in SUBSET LaterPages(respLineas(feed, destino, parcial["destino"])),
        l3 \in SUBSET LaterPages(respEstimaciones(live, origen)) :
       /\ l1 \cup l2 \cup l3 # {}
       /\ parcial' = [parcial EXCEPT !["lineasOrigen"] = l1, !["lineasDestino"] = l2,
                                     !["estimaciones"] = l3]
  /\ sibs' = "ok"
  /\ UNCHANGED <<req, feed, live, origen, destino, clock, cache, calls, pc, plan>>

\* the fetch of the full estimates resolves with a later page lost
EstimPartial ==
  /\ \E lost \in (SUBSET LaterPages(live)) \ {{}} :
       /\ CacheFetchPartial(1, lost)
       /\ parcial' = [parcial EXCEPT !["todas"] = lost]
  /\ UNCHANGED <<req, feed, live, origen, destino, clock, pc, sibs, plan>>

NextPaged ==
  \/ PlanStart
  \/ StopsFail
  \/ StopsResolve
  \/ StopsPartial
  \/ SibsResolve
  \/ SibsFail
  \/ SibsPartial
  \/ EstimResolve
  \/ EstimFail
  \/ EstimPartial
  \/ PlanFinish

SpecPaged == InitPaged /\ [][NextPaged]_vars

\* a request of the call was answered with an error status, or failed
HuboFallo ==
  \/ \E n \in Fetches : parcial[n] # {}
  \/ sibs = "failed"
  \/ calls[1].st = "threw"
  \/ pc = "failed"

\* C12: when a request issued during a planificarRuta call, for a first page
\* or for a later page, is answered with an error status or fails, the call
\* fails: no plan is returned, none is built from what the other requests
\* delivered.
C12_FetchFailureFailsCall == HuboFallo => (pc # "done" /\ plan = Undefined)

\* ------------------------------------------------------------------------
\* The returned plan: empty inputs, positions, next bus, distance
\* ------------------------------------------------------------------------
SinEntradas(id) == secuenciaPorParada(feed, id) = <<>>
CamposDelPlan == {"origen", "destino", "rutasDirectas", "rutasConTransbordo", "tiempoConsulta"}

\* C13: when every fetch of the call succeeded and the origin stop has no
\* sequence entries, or the destination stop has none, or the estimates
\* snapshot has no records, the call does not fail and the plan it returns has
\* its five fields, with no direct route and no transfer route.
C13_EmptyInputsEmptyPlan ==
  (/\ sibs = "ok"
   /\ calls[1].st = "returned"
   /\ (SinEntradas(origen) \/ SinEntradas(destino) \/ Usada.resources = <<>>)) =>
    /\ pc \in {"await2", "done"}
    /\ Returned =>
         /\ DOMAIN plan[1] = CamposDelPlan
         /\ Directas = <<>>
         /\ Transbordos = <<>>

\* a plan was returned from an empty snapshot although a line runs from the
\* origin to the destination
C13_Witness ==
  /\ Returned
  /\ Usada.resources = <<>>
  /\ ParesDirectos # {}

\* C14: a raw record of the origin or destination stop whose position is
\* missing, or present but not a number, is normalised to position 0; no
\* entry reaches the matchers with a position that is not a number.
C14_BadPositionIsZero ==
  Returned =>
    \A i \in FeedIdx :
      (toString(feed[i].nParada) \in {origen, destino} /\ feed[i].puntoKM.k # "num") =>
        seqToEntry(feed[i]).puntoKm = Num(0)

\* the estimates of the origin stop, as the call received them
EstimacionesOrigen == getEstimacionesByParada(live, origen)

\* the entries of the origin estimates whose label is, whatever the case, the
\* line of candidate r
DeLaLinea(r) ==
  {i \in 1..Len(EstimacionesOrigen) :
     r.linea # Undefined /\ toUpperCase(EstimacionesOrigen[i].linea) = toUpperCase(r.linea[1])}

SinProximoBus(r) == [linea |-> r.linea, sentido |-> r.sentido, distanciaKm |-> r.distanciaKm]

\* C16: the next bus of each direct candidate is that of the first entry of
\* the origin estimates whose label equals the line whatever the case, and is
\* null exactly when there is no such entry; the candidates are those the call
\* would return with no estimate at the origin stop.
C16_NextBusFromFirstEstimate ==
  Returned =>
    /\ \A k \in 1..Len(Directas) :
         LET m == DeLaLinea(Directas[k])
         IN IF m = {}
            THEN Directas[k].proximoBus = Undefined
            ELSE LET first == CHOOSE i \in m : \A j \in m : i <= j
                 IN Directas[k].proximoBus
                      = Some([tiempoMinutos |-> EstimacionesOrigen[first].tiempoMinutos])
    /\ MapSeq(SinProximoBus, Directas)
         = MapSeq(SinProximoBus,
                  planificarRuta(feed, <<>>, Usada, origen, destino, clock,
                                 parcial).rutasDirectas)

\* a plan with a candidate that has no estimate at the origin, and one whose
\* line has two estimates of different times there
C16_Witness ==
  /\ Returned
  /\ \E k \in 1..Len(Directas) : DeLaLinea(Directas[k]) = {}
  /\ \E k \in 1..Len(Directas) :
       \E i, j \in DeLaLinea(Directas[k]) :
         EstimacionesOrigen[i].tiempoMinutos # EstimacionesOrigen[j].tiempoMinutos

\* C17: the distance of each direct candidate is the destination position
\* minus the origin position of the pair that produced it, to the nearest
\* hundredth of a kilometre, and is never negative.
C17_DistanceOfPair ==
  Returned =>
    \A k \in 1..Len(Directas) :
      LET p == PrimerPar(Directas[k])
          d == Posicion(feed[p[2]]) - Posicion(feed[p[1]])
          km == Directas[k].distanciaKm
      IN /\ ~km.nan
         /\ km.v >= 0
         /\ 10 * km.v - 5 <= d
         /\ d <= 10 * km.v + 5

\* a plan with a candidate whose distance is not a whole number of hundredths
\* of a kilometre before rounding
C17_Witness ==
  /\ Returned
  /\ \E k \in 1..Len(Directas) :
       LET p == PrimerPar(Directas[k])
       IN (Posicion(feed[p[2]]) - Posicion(feed[p[1]])) % 10 # 0

\* ------------------------------------------------------------------------
\* The cache write inside a planning call
\* ------------------------------------------------------------------------
\* C15, as claimed: within a planificarRuta call the cache is written only
\* once every fetch of the same group has resolved, never while a sibling
\* fetch is in flight and never after a sibling has failed.
C15_CacheWriteAfterGroup == [][cache' # cache => sibs' = "ok"]_vars

\* C15, amended: within a planificarRuta call the cache is written only in
\* the step in which the call's own fetch of the full estimates resolves, with
\* the snapshot that fetch delivered and the start time of the cache call;
\* the sibling fetches are not waited for.
C15_CacheWriteOnOwnFetch ==
  [][cache' # cache =>
       /\ calls[1].st = "fetching"
       /\ calls'[1].st = "returned"
       /\ cache' = [data |-> calls'[1].result, ts |-> calls[1].now]]_vars

\* the cache holds the snapshot of the call while the sibling fetches are
\* still in flight
C15_Witness == writer = 1 /\ sibs = "pending"

\* ------------------------------------------------------------------------
\* The order in which the feed delivers the sequence entries
\* ------------------------------------------------------------------------
\* the entries are in (direction, position) order; a position that is not a
\* number has no order
EnOrden(entries) ==
  \A i, j \in 1..Len(entries) :
    i < j =>
      \/ entries[i].sentido < entries[j].sentido
      \/ /\ entries[i].sentido = entries[j].sentido
         /\ (entries[i].puntoKm.nan \/ entries[j].puntoKm.nan
             \/ entries[i].puntoKm.v <= entries[j].puntoKm.v)

\* C18: the matchers go through the origin entries and the destination
\* entries in (direction, position) order, and the returned plan is the one
\* the call returns when the feed delivers its records in the opposite order.
C18_SortedBeforeUse ==
  Returned =>
    /\ EnOrden(MapSeq(seqToEntry, secuenciaPorParada(feed, origen)))
    /\ EnOrden(MapSeq(seqToEntry, secuenciaPorParada(feed, destino)))
    /\ plan[1] = planificarRuta(Reverse(feed), live, Usada, origen, destino, clock, parcial)

\* ------------------------------------------------------------------------
\* Termination of a planning call
\* ------------------------------------------------------------------------
\* every fetch resolves or rejects, and the continuation of a fulfilled
\* Promise.all runs
\* Promise.all of the second group is fulfilled: PlanFinish is enabled
Fulfilled == pc = "await2" /\ sibs = "ok" /\ calls[1].st = "returned"

\* weak fairness of the fetches and of PlanFinish, the latter written out with
\* its enabling condition
FairPlan ==
  /\ WF_vars(StopsFail \/ StopsResolve \/ StopsPartial)
  /\ WF_vars(SibsResolve \/ SibsFail \/ SibsPartial)
  /\ WF_vars(EstimResolve \/ EstimFail \/ EstimPartial)
  /\ ([]<>(~Fulfilled) \/ []<><<PlanFinish>>_vars)

SpecLive == InitPaged /\ [][NextPaged]_vars /\ FairPlan

\* C19: a planificarRuta call that was issued eventually returns a plan or
\* fails, given that each of its fetches eventually resolves or rejects.
C19_CallTerminates == (pc = "await1") ~> (pc \in {"done", "failed"})

\* the call has failed on a sibling fetch while the fetch of the full
\* estimates is still in flight
C19_Witness == pc = "failed" /\ sibs = "failed" /\ calls[1].st = "fetching"

\* ------------------------------------------------------------------------
\* Overlapping refreshes of the cache
\* ------------------------------------------------------------------------
\* C20, as claimed: under any interleaving of overlapping calls the stored
\* timestamp never decreases, and the stored snapshot is never replaced by
\* that of a call that started earlier than the call that produced it.
C20_NoOlderOverwrite ==
  [][/\ cache'.ts >= cache.ts
     /\ (cache.data # Undefined /\ cache'.data # cache.data) =>
          calls[cache'.data[1].id].now >= calls[cache.data[1].id].now]_vars

\* C20, amended: the stored timestamp is always the start time of the call
\* whose fetch produced the stored snapshot, and it decreases only when a call
\* that started before that call resolves after it.
C20_TimestampOfStoredSnapshot ==
  [][/\ cache'.data # Undefined => cache'.ts = calls'[cache'.data[1].id].now
     /\ cache'.ts < cache.ts =>
          \E c \in CallIds :
            /\ c < writer
            /\ calls[c].st = "fetching"
            /\ calls'[c].st = "returned"
            /\ cache'.data = calls'[c].result]_vars

\* the cache holds the snapshot of the first call although the second call,
\* started later, has fetched and returned
C20_Witness ==
  /\ writer = 1
  /\ calls[2].st = "returned"
  /\ calls[2].fetched
  /\ calls[2].now > calls[1].now
  /\ cache.ts = calls[1].now

====
